---- MODULE Spec2Model ----
(***************************************************************************)
(* Model of tools/mcp_installer.py: the registry file of MCP servers       *)
(* (~/.cursor/mcp.json), the compliance check with its retry loop, the     *)
(* two installers, the smithery.yaml emitter and the command line          *)
(* front end.                                                              *)
(*                                                                         *)
(* A Python string is a sequence of tokens (<<"example-pkg">>,             *)
(* <<"opt", "/", "srv">>, <<"A", "=", "1">>); the string operations of the *)
(* program (in, startswith, split, basename, join) work on the tokens.     *)
(* A Python function is an operator that takes the world it runs in and    *)
(* returns the world it leaves, the value it returns and whether it        *)
(* raised.  Every operation appends what it did to the log of the call.    *)
(***************************************************************************)
EXTENDS Integers, Sequences, FiniteSets, TLC

VARIABLES fs, yaml, prevFs, call, ret, log

vars == <<fs, yaml, prevFs, call, ret, log>>

(***************************************************************************)
(* Strings                                                                 *)
(***************************************************************************)

\* Python: tok in s
Contains(s, tok) == \E i \in 1..Len(s) : s[i] = tok

\* Python: s.startswith(p)
StartsWith(s, p) == Len(s) >= Len(p) /\ SubSeq(s, 1, Len(p)) = p

SetMax(S) == CHOOSE m \in S : \A k \in S : k <= m

SetMin(S) == CHOOSE m \in S : \A k \in S : m <= k

\* os.path.basename: what follows the last separator
basename(s) ==
    LET seps == {i \in 1..Len(s) : s[i] = "/"}
    IN  IF seps = {} THEN s ELSE SubSeq(s, SetMax(seps) + 1, Len(s))

\* os.path.join(p, f)
path_join(p, f) ==
    IF p = <<>> THEN f
    ELSE IF p[Len(p)] = "/" THEN p \o f
    ELSE p \o <<"/">> \o f

\* an assignment that drops what the dict held before
DictSet_only_new(d, k, v) == [x \in {k} |-> v]

\* an assignment that updates the old value of the key field by field
DictSet_update(d, k, v) ==
    [x \in (DOMAIN d) \cup {k} |->
        IF x # k THEN d[x]
        ELSE IF k \in DOMAIN d
        THEN [f \in (DOMAIN d[k]) \cup (DOMAIN v) |->
                 IF f \in DOMAIN v THEN v[f] ELSE d[k][f]]
        ELSE v]

\* a dict as a function; d[k] = v
DictSet(d, k, v) == [x \in (DOMAIN d) \cup {k} |-> IF x = k THEN v ELSE d[x]]

EmptyDict == <<>>

\* one entry of the log of a call
Ev(op, arg) == [op |-> op, arg |-> arg]

(***************************************************************************)
(* ConfigStore: load_config, save_config                                   *)
(*   fs.kind  "nodir"      ~/.cursor does not exist                        *)
(*            "absent"     the directory exists, mcp.json does not         *)
(*            "malformed"  mcp.json exists and is not a JSON registry      *)
(*            "ok"         mcp.json holds the document fs.doc              *)
(***************************************************************************)

EmptyConfig == [mcpServers |-> EmptyDict]

NoFile(kind) == [kind |-> kind, doc |-> EmptyConfig]

OkFile(doc) == [kind |-> "ok", doc |-> doc]

Missing == {"nodir", "absent"}

\* a load_config that writes the default registry it returns
load_config_creates(w) ==
    IF w.fs.kind \in Missing
    THEN [w   |-> [w EXCEPT !.fs = OkFile(EmptyConfig),
                            !.log = Append(@, Ev("load_config", <<>>))],
          exc |-> FALSE, val |-> EmptyConfig]
    ELSE IF w.fs.kind = "malformed"
    THEN [w   |-> [w EXCEPT !.log = Append(@, Ev("load_config", <<>>))],
          exc |-> TRUE, val |-> EmptyConfig]
    ELSE [w   |-> [w EXCEPT !.log = Append(@, Ev("load_config", <<>>))],
          exc |-> FALSE, val |-> w.fs.doc]

\* a load_config that takes a file it cannot parse for an empty registry
load_config_tolerant(w) ==
    IF w.fs.kind \in Missing
    THEN [w   |-> [w EXCEPT !.fs = NoFile("absent"),
                            !.log = Append(@, Ev("load_config", <<>>))],
          exc |-> FALSE, val |-> EmptyConfig]
    ELSE IF w.fs.kind = "malformed"
    THEN [w   |-> [w EXCEPT !.log = Append(@, Ev("load_config", <<>>))],
          exc |-> FALSE, val |-> EmptyConfig]
    ELSE [w   |-> [w EXCEPT !.log = Append(@, Ev("load_config", <<>>))],
          exc |-> FALSE, val |-> w.fs.doc]

load_config(w) ==
    IF w.fs.kind \in Missing
    THEN \* config_path.parent.mkdir(parents=True, exist_ok=True)
         [w   |-> [w EXCEPT !.fs = NoFile("absent"),
                            !.log = Append(@, Ev("load_config", <<>>))],
          exc |-> FALSE, val |-> EmptyConfig]
    ELSE IF w.fs.kind = "malformed"
    THEN \* json.load raises
         [w   |-> [w EXCEPT !.log = Append(@, Ev("load_config", <<>>))],
          exc |-> TRUE, val |-> EmptyConfig]
    ELSE [w   |-> [w EXCEPT !.log = Append(@, Ev("load_config", <<>>))],
          exc |-> FALSE, val |-> w.fs.doc]

save_config(w, config) ==
    IF w.fs.kind = "nodir"
    THEN \* open(config_path, 'w') raises FileNotFoundError
         [w   |-> [w EXCEPT !.log = Append(@, Ev("save_config", <<>>))],
          exc |-> TRUE]
    ELSE [w   |-> [w EXCEPT !.fs = OkFile(config),
                            !.log = Append(@, Ev("save_config", <<>>))],
          exc |-> FALSE]

\* smithery.yaml in the working directory: none, or the last one written
NoYaml == [kind |-> "none"]

\* the program never reads smithery.yaml: what an earlier run wrote is "old"
Stale(y) == IF y.kind = "none" THEN y ELSE [kind |-> "old"]

\* the world a call starts in (views counts the "npm view" runs of the call)
World(f, y) == [fs |-> f, yaml |-> Stale(y), log |-> <<>>, views |-> 0]

NoCall == [op |-> "none"]

NoRet == [exc |-> FALSE, val |-> "unset"]

(***************************************************************************)
(* SpecStore: load_config and save_config called on their own              *)
(***************************************************************************)

StoreNames == {<<"a">>, <<"b">>}

StoreEntries ==
    { [command |-> "npx", args |-> <<"-y">>, type |-> "stdio"],
      [command |-> "node", args |-> <<"index.js">>, type |-> "stdio",
       env |-> (<<"X">> :> <<"1">>)] }

StoreConfigs ==
    UNION { { [mcpServers |-> m] : m \in [D -> StoreEntries] } : D \in SUBSET StoreNames }

InitStore ==
    /\ fs \in {NoFile("nodir"), NoFile("absent"), NoFile("malformed"), OkFile(EmptyConfig)}
    /\ yaml = NoYaml
    /\ prevFs = fs
    /\ call = NoCall
    /\ ret = NoRet
    /\ log = <<>>

CallLoadConfig ==
    \E r \in {load_config(World(fs, yaml))} :
        /\ fs' = r.w.fs
        /\ prevFs' = fs
        /\ call' = [op |-> "load_config"]
        /\ ret' = [exc |-> r.exc, val |-> IF r.exc THEN "raise" ELSE "config",
                   config |-> r.val]
        /\ log' = r.w.log
        /\ UNCHANGED yaml

CallSaveConfig ==
    \E c \in StoreConfigs :
        \E r \in {save_config(World(fs, yaml), c)} :
            /\ fs' = r.w.fs
            /\ prevFs' = fs
            /\ call' = [op |-> "save_config", config |-> c]
            /\ ret' = [exc |-> r.exc, val |-> IF r.exc THEN "raise" ELSE "None",
                       config |-> c]
            /\ log' = r.w.log
            /\ UNCHANGED yaml

\* the user removes or damages the file between two runs
ExternalEdit ==
    /\ fs' \in {NoFile("nodir"), NoFile("absent"), NoFile("malformed")}
    /\ fs' # fs
    /\ prevFs' = fs'
    /\ call' = NoCall
    /\ ret' = NoRet
    /\ log' = <<>>
    /\ UNCHANGED yaml

NextStore == CallLoadConfig \/ CallSaveConfig \/ ExternalEdit

SpecStore == InitStore /\ [][NextStore]_vars

split_env_var_last(env_var) ==
    LET eq == SetMax({i \in 1..Len(env_var) : env_var[i] = "="})
    IN  [key |-> SubSeq(env_var, 1, eq - 1), value |-> SubSeq(env_var, eq + 1, Len(env_var))]

\* key, value = env_var.split("=", 1)
split_env_var(env_var) ==
    LET eq == SetMin({i \in 1..Len(env_var) : env_var[i] = "="})
    IN  [key |-> SubSeq(env_var, 1, eq - 1), value |-> SubSeq(env_var, eq + 1, Len(env_var))]

\* the loop over args.env; r is [env_dict, warnings] so far
RECURSIVE process_env(_, _, _)
process_env(tokens, i, r) ==
    IF i > Len(tokens) THEN r
    ELSE IF Contains(tokens[i], "=")
    THEN LET kv == split_env_var(tokens[i])
         IN  process_env(tokens, i + 1,
                 [r EXCEPT !.env_dict = DictSet(@, kv.key, kv.value)])
    ELSE process_env(tokens, i + 1,
                 [r EXCEPT !.warnings = Append(@, tokens[i])])

\* env_dict = {}; if hasattr(args, 'env') and args.env: ...
env_dict_of(tokens) ==
    process_env(tokens, 1, [env_dict |-> EmptyDict, warnings |-> <<>>])

(***************************************************************************)
(* SpecEnv: the env map of every short list of --env tokens                *)
(***************************************************************************)

MaxTokens == 3

EnvTokens ==
    { <<"A", "=", "1">>, <<"B", "=", "2">>, <<"bad">>, <<"A", "=", "3">>,
      <<"A", "=", "1", "=", "2">>, <<"=", "x">> }

EnvTokenLists == UNION { [1..n -> EnvTokens] : n \in 0..MaxTokens }

InitEnv ==
    /\ fs = NoFile("nodir")
    /\ yaml = NoYaml
    /\ prevFs = fs
    /\ \E T \in EnvTokenLists : call = [op |-> "env", tokens |-> T]
    /\ ret = NoRet
    /\ log = <<>>

ParseEnv ==
    /\ ret.val = "unset"
    /\ \E r \in {env_dict_of(call.tokens)} :
           /\ ret' = [exc |-> FALSE, val |-> "env_dict", env_dict |-> r.env_dict]
           /\ log' = [i \in 1..Len(r.warnings) |-> Ev("warning", r.warnings[i])]
    /\ UNCHANGED <<fs, yaml, prevFs, call>>

NextEnv == ParseEnv

SpecEnv == InitEnv /\ [][NextEnv]_vars

\* token t carries key k: t is k, then "=", then a value, and k holds no "="
Carries(t, k) == ~ Contains(k, "=") /\ StartsWith(t, k \o <<"=">>)

\* C10: the env map has exactly the keys of the tokens that contain "=",
\* each mapped to the text after the first "=" of the last token that
\* carries the key; tokens without "=" are dropped (and logged) without a
\* failure.
C10_EnvMapLastWins ==
    (call.op = "env" /\ ret.val # "unset") =>
        LET T == call.tokens
            d == ret.env_dict
            good == {i \in 1..Len(T) : Contains(T[i], "=")}
        IN  /\ ret.exc = FALSE
            /\ \A i \in good : \E k \in DOMAIN d : Carries(T[i], k)
            /\ \A k \in DOMAIN d :
                  LET is == {i \in good : Carries(T[i], k)}
                  IN  /\ is # {}
                      /\ T[SetMax(is)] = k \o <<"=">> \o d[k]
            /\ Len(log) = Cardinality((1..Len(T)) \ good)

C10_Witness ==
    /\ call.op = "env"
    /\ ret.val # "unset"
    /\ call.tokens = << <<"A", "=", "1">>, <<"bad">>, <<"A", "=", "3">> >>
    /\ ret.env_dict = (<<"A">> :> <<"3">>)
    /\ Len(log) = 1

(***************************************************************************)
(* Package manifests (package.json, the output of "npm view --json")       *)
(*   a JSON value is tagged: absent, null, a dict (its keys), a string     *)
(*   or a list (its items)                                                 *)
(***************************************************************************)

JAbsent == [t |-> "absent"]

JNull == [t |-> "null"]

JDict(keys) == [t |-> "dict", keys |-> keys]

JStr(s) == [t |-> "str", s |-> s]

JList(items) == [t |-> "list", items |-> items]

\* json.loads gave a dict with these fields (absent ones included)
Manifest(name, dependencies, capabilities) ==
    [t |-> "dict", name |-> name, dependencies |-> dependencies,
     capabilities |-> capabilities]

\* json.loads gave a list: "npm view" of a version range
ListManifest ==
    [t |-> "list", name |-> JAbsent, dependencies |-> JAbsent, capabilities |-> JAbsent]

\* {} of check_package_json
EmptyManifest == Manifest(JAbsent, JAbsent, JAbsent)

MCP == "modelcontextprotocol"

MCP_NAMESPACE == <<"@", "modelcontextprotocol", "/">>

\* the tokens of str(j)
TokensOf(j) ==
    CASE j.t = "str"  -> {j.s[i] : i \in 1..Len(j.s)}
      [] j.t = "dict" -> UNION { {k[i] : i \in 1..Len(k)} : k \in j.keys }
      [] j.t = "list" -> UNION { {k[i] : i \in 1..Len(k)} : k \in j.items }
      [] OTHER        -> {}

\* package_info.get("dependencies", {}).keys(): raises unless a dict
dependency_keys(package_info) ==
    IF package_info.t # "dict" THEN [exc |-> TRUE, val |-> {}]
    ELSE IF package_info.dependencies.t = "absent" THEN [exc |-> FALSE, val |-> {}]
    ELSE IF package_info.dependencies.t = "dict"
    THEN [exc |-> FALSE, val |-> package_info.dependencies.keys]
    ELSE [exc |-> TRUE, val |-> {}]

\* any(dep.startswith("@modelcontextprotocol/") for dep in ...)
has_mcp_deps(deps) == \E dep \in deps : StartsWith(dep, MCP_NAMESPACE)

\* "modelcontextprotocol" in str(package_info)
has_mcp_schema(package_info) ==
    MCP \in TokensOf(package_info.name) \cup TokensOf(package_info.dependencies)
                \cup TokensOf(package_info.capabilities)

\* a has_mcp_fields that looks for the key resources
has_mcp_fields_resources(package_info) ==
    LET c == package_info.capabilities
    IN  CASE c.t = "absent" -> [exc |-> FALSE, val |-> FALSE]
          [] c.t = "dict"   -> [exc |-> FALSE, val |-> <<"resources">> \in c.keys]
          [] c.t = "list"   -> [exc |-> FALSE, val |-> <<"resources">> \in c.items]
          [] c.t = "str"    -> [exc |-> FALSE, val |-> Contains(c.s, "resources")]
          [] OTHER          -> [exc |-> TRUE, val |-> FALSE]

\* "capabilities" in package_info and "tools" in package_info.get("capabilities", {})
has_mcp_fields(package_info) ==
    LET c == package_info.capabilities
    IN  CASE c.t = "absent" -> [exc |-> FALSE, val |-> FALSE]
          [] c.t = "dict"   -> [exc |-> FALSE, val |-> <<"tools">> \in c.keys]
          [] c.t = "list"   -> [exc |-> FALSE, val |-> <<"tools">> \in c.items]
          [] c.t = "str"    -> [exc |-> FALSE, val |-> Contains(c.s, "tools")]
          [] OTHER          -> [exc |-> TRUE, val |-> FALSE]   \* TypeError

\* lines 113-127: the three indicators, in the order the code evaluates them
is_compliant(package_info) ==
    LET deps == dependency_keys(package_info)
        fields == has_mcp_fields(package_info)
    IN  IF deps.exc \/ fields.exc THEN [exc |-> TRUE, val |-> FALSE]
        ELSE [exc |-> FALSE,
              val |-> has_mcp_deps(deps.val) \/ has_mcp_schema(package_info) \/ fields.val]

(***************************************************************************)
(* The environment of a call                                               *)
(*   e.local      the package.json under the local path:                   *)
(*                state "missing" | "invalid" | "unreadable" | "ok", info  *)
(*   e.registry   what "npm view <name> --json" prints once it succeeds    *)
(*   e.viewFails  how many runs of "npm view" fail before one succeeds     *)
(***************************************************************************)

\* check_package_json: a missing or invalid file is {}, any other error raises
check_package_json(w, e, path) ==
    LET w1 == [w EXCEPT !.log = Append(@, Ev("check_package_json", path))]
    IN  CASE e.local.state = "ok"         -> [w |-> w1, exc |-> FALSE, val |-> e.local.info]
          [] e.local.state = "unreadable" -> [w |-> w1, exc |-> TRUE, val |-> EmptyManifest]
          [] OTHER                        -> [w |-> w1, exc |-> FALSE, val |-> EmptyManifest]

\* subprocess.run(["npm", "view", package_name, "--json"], check=True); json.loads
npm_view(w, e, package_name) ==
    LET w1 == [w EXCEPT !.log = Append(@, Ev("npm_view", package_name)),
                        !.views = @ + 1]
    IN  IF w.views < e.viewFails
        THEN [w |-> w1, exc |-> TRUE, val |-> EmptyManifest]
        ELSE [w |-> w1, exc |-> FALSE, val |-> e.registry]

NoPath == <<>>

\* lines 136-143 and 329-336: the except branch of a retry loop
retry_or_give_up(w, attempt, max_retries) ==
    IF attempt < max_retries - 1
    THEN [w |-> [w EXCEPT !.log = Append(@, Ev("sleep", <<>>))], again |-> TRUE]
    ELSE [w |-> w, again |-> FALSE]

\* one pass of "for attempt in range(max_retries)" and the passes after it
RECURSIVE compliance_loop(_, _, _, _, _, _)
compliance_loop(w, e, package_name, local_path, max_retries, attempt) ==
    IF attempt >= max_retries
    THEN \* the loop ends and the function falls off its end
         [w |-> w, exc |-> FALSE, val |-> "None"]
    ELSE LET w1 == [w EXCEPT !.log = Append(@, Ev("attempt", package_name))]
             got == IF local_path # NoPath
                    THEN check_package_json(w1, e, local_path)
                    ELSE npm_view(w1, e, package_name)
             res == IF got.exc THEN [exc |-> TRUE, val |-> FALSE]
                    ELSE is_compliant(got.val)
         IN  IF ~ res.exc
             THEN [w |-> got.w, exc |-> FALSE,
                   val |-> IF res.val THEN "True" ELSE "False"]
             ELSE LET w2 == [got.w EXCEPT !.log = Append(@, Ev("failed", package_name))]
                      nxt == retry_or_give_up(w2, attempt, max_retries)
                  IN  IF nxt.again
                      THEN compliance_loop(nxt.w, e, package_name, local_path,
                                           max_retries, attempt + 1)
                      ELSE [w |-> nxt.w, exc |-> FALSE, val |-> "False"]

is_mcp_compliant(w, e, package_name, local_path, max_retries) ==
    compliance_loop(w, e, package_name, local_path, max_retries, 0)

DEFAULT_MAX_RETRIES == 3

(***************************************************************************)
(* SpecCompliance: is_mcp_compliant on every manifest, source and          *)
(* max_retries of the bounded sets                                         *)
(***************************************************************************)

MaxRetriesDrawn == 3

MaxViewFails == 4

SDK == <<"@", "modelcontextprotocol", "/", "sdk">>

DependencyValues ==
    { JAbsent, JNull, JDict({}), JDict({<<"express">>}), JDict({SDK}),
      JDict({<<"express">>, SDK}), JDict({<<"x", "@", "modelcontextprotocol", "/">>}) }

CapabilityValues ==
    { JAbsent, JNull, JDict({}), JDict({<<"tools">>}), JDict({<<"resources">>}),
      JStr(<<"my", "tools">>), JList({<<"tools">>}) }

NameValues == { JAbsent, JStr(<<"srv">>), JStr(<<"modelcontextprotocol", "-", "srv">>) }

Manifests ==
    { Manifest(n, d, c) : n \in NameValues, d \in DependencyValues, c \in CapabilityValues }
        \cup {ListManifest}

LocalFiles ==
    { [state |-> st, info |-> EmptyManifest] : st \in {"missing", "invalid", "unreadable"} }
        \cup { [state |-> "ok", info |-> mf] : mf \in Manifests }

NoLocal == [state |-> "missing", info |-> EmptyManifest]

ComplianceCalls ==
    { [op |-> "is_mcp_compliant", package_name |-> <<"example-pkg">>,
       local_path |-> NoPath, max_retries |-> r,
       e |-> [local |-> NoLocal, registry |-> mf, viewFails |-> v]] :
         r \in 0..MaxRetriesDrawn, mf \in Manifests, v \in 0..MaxViewFails }
    \cup
    { [op |-> "is_mcp_compliant", package_name |-> <<"srv">>,
       local_path |-> <<"opt", "/", "srv">>, max_retries |-> r,
       e |-> [local |-> lf, registry |-> EmptyManifest, viewFails |-> 0]] :
         r \in 0..MaxRetriesDrawn, lf \in LocalFiles }

InitCompliance ==
    /\ fs = NoFile("nodir")
    /\ yaml = NoYaml
    /\ prevFs = fs
    /\ call \in ComplianceCalls
    /\ ret = NoRet
    /\ log = <<>>

CheckCompliance ==
    /\ ret.val = "unset"
    /\ \E r \in {is_mcp_compliant(World(fs, yaml), call.e, call.package_name,
                                   call.local_path, call.max_retries)} :
           /\ ret' = [exc |-> r.exc, val |-> r.val]
           /\ log' = r.w.log
    /\ UNCHANGED <<fs, yaml, prevFs, call>>

NextCompliance == CheckCompliance

SpecCompliance == InitCompliance /\ [][NextCompliance]_vars

\* how many entries of the log are of the operation op
Count(op) == Cardinality({i \in 1..Len(log) : log[i].op = op})

Returned == ret.val # "unset"

\* C5 (as claimed): for every max_retries, when every attempt of the
\* compliance check fails with an exception, the checker makes exactly
\* max_retries attempts, sleeps between consecutive attempts only, and
\* returns the boolean False without raising.
C5_ExactlyMaxRetriesThenFalse ==
    (Returned /\ call.op = "is_mcp_compliant" /\ Count("failed") = Count("attempt"))
        => /\ Count("attempt") = call.max_retries
           /\ \A i \in 1..Len(log) :
                 log[i].op = "sleep" =>
                     /\ i > 1 /\ log[i - 1].op = "failed"
                     /\ i < Len(log) /\ log[i + 1].op = "attempt"
           /\ \A i \in 1..Len(log) :
                 (log[i].op = "failed" /\ i < Len(log)) => log[i + 1].op = "sleep"
           /\ ret.exc = FALSE
           /\ ret.val = "False"

\* the three markers of the specification, on a manifest
Marker1(mf) ==
    mf.dependencies.t = "dict" /\ \E k \in mf.dependencies.keys : StartsWith(k, MCP_NAMESPACE)

Marker2(mf) ==
    \E j \in {mf.name, mf.dependencies, mf.capabilities} : MCP \in TokensOf(j)

Marker3(mf) == mf.capabilities.t = "dict" /\ <<"tools">> \in mf.capabilities.keys

AnyMarker(mf) == Marker1(mf) \/ Marker2(mf) \/ Marker3(mf)

\* the manifest the first attempt of the call obtains, when it obtains one
FirstObtains ==
    /\ call.max_retries >= 1
    /\ IF call.local_path # NoPath THEN call.e.local.state # "unreadable"
       ELSE call.e.viewFails = 0

ObtainedManifest ==
    IF call.local_path = NoPath THEN call.e.registry
    ELSE IF call.e.local.state = "ok" THEN call.e.local.info
    ELSE EmptyManifest

FirstAttemptVerdict ==
    /\ Count("attempt") = 1
    /\ Count("sleep") = 0
    /\ ret.exc = FALSE
    /\ ret.val = IF AnyMarker(ObtainedManifest) THEN "True" ELSE "False"
    /\ (call.local_path # NoPath /\ call.e.local.state \in {"missing", "invalid"})
          => ret.val = "False"

\* C6 (as claimed): for every manifest obtained without an exception the
\* check returns on the first attempt, with True exactly when one of the
\* three markers holds; a missing or unparsable local manifest is an empty
\* manifest and gives False without a retry.
C6_Original_AnyObtainedManifest ==
    (Returned /\ call.op = "is_mcp_compliant" /\ FirstObtains) => FirstAttemptVerdict

\* a JSON object whose dependencies and capabilities are absent or objects
WellTyped(mf) ==
    /\ mf.t = "dict"
    /\ mf.dependencies.t \in {"absent", "dict"}
    /\ mf.capabilities.t \in {"absent", "dict"}

\* C6 (amended): the same, for every manifest that is a JSON object whose
\* dependencies and capabilities fields are each absent or a JSON object.
C6_WellTypedManifestVerdict ==
    (Returned /\ call.op = "is_mcp_compliant" /\ FirstObtains
        /\ WellTyped(ObtainedManifest)) => FirstAttemptVerdict

C6_Witness ==
    /\ Returned
    /\ call.op = "is_mcp_compliant"
    /\ call.local_path = NoPath
    /\ call.e.viewFails = 0
    /\ call.max_retries = 3
    /\ call.e.registry = Manifest(JStr(<<"srv">>), JDict({<<"express">>}), JDict({<<"tools">>}))
    /\ ret.val = "True"
    /\ Count("attempt") = 1

(***************************************************************************)
(* EnvironmentProbe and ManifestEmitter                                    *)
(*   e.node, e.npm   "ok" | "missing" | "broken" (exits nonzero)           *)
(*   e.emitFails     smithery.yaml cannot be opened for writing            *)
(***************************************************************************)

check_environment(w, e) ==
    [w   |-> [w EXCEPT !.log = Append(@, Ev("check_environment", <<>>))],
     val |-> [node |-> e.node = "ok", npm |-> e.npm = "ok", uvx |-> e.uvx = "ok"]]

\* the document of lines 167-190: the command function and the schema
SmitheryYaml(command, args, env) ==
    [kind |-> "written", startCommand |-> "stdio", command |-> command, args |-> args,
     properties |-> DOMAIN env,
     required |-> IF env # EmptyDict THEN JList(DOMAIN env) ELSE JAbsent]

\* an emitter without its try: a failure to write propagates to the caller
generate_smithery_yaml_raises(w, e, package_name, command, args, env) ==
    LET w1 == [w EXCEPT !.log = Append(@, Ev("generate_smithery_yaml", package_name))]
    IN  IF e.emitFails
        THEN [w |-> w1, exc |-> TRUE, val |-> "raise"]
        ELSE [w |-> [w1 EXCEPT !.yaml = SmitheryYaml(command, args, env)],
              exc |-> FALSE, val |-> "True"]

generate_smithery_yaml(w, e, package_name, command, args, env) ==
    LET w1 == [w EXCEPT !.log = Append(@, Ev("generate_smithery_yaml", package_name))]
    IN  IF e.emitFails
        THEN \* open("smithery.yaml", 'w') raises, caught at line 212
             [w |-> w1, exc |-> FALSE, val |-> "False"]
        ELSE [w |-> [w1 EXCEPT !.yaml = SmitheryYaml(command, args, env)],
              exc |-> FALSE, val |-> "True"]

(***************************************************************************)
(* Installer                                                               *)
(***************************************************************************)

\* a server_config that always carries the env key
server_config_always_env(command, args, env) ==
    [command |-> command, args |-> args, type |-> "stdio", env |-> env]

\* lines 252-259 and 309-316
server_config(command, args, env) ==
    IF env # EmptyDict
    THEN [command |-> command, args |-> args, type |-> "stdio", env |-> env]
    ELSE [command |-> command, args |-> args, type |-> "stdio"]

\* an exists test that lets every path through
path_exists_always(e, path) == TRUE

\* os.path.exists(path)
path_exists(e, path) == path # <<>> /\ e.pathExists

\* a name that ignores the manifest
local_server_name_basename(package_info, path) == basename(path)

\* package_info.get("name", os.path.basename(path))
local_server_name(package_info, path) ==
    IF package_info.name.t = "str" THEN package_info.name.s ELSE basename(path)

\* [os.path.join(path, "index.js")] + (args if args else [])
local_args(path, args) == <<path_join(path, <<"index.js">>)>> \o args

install_local_mcp_server(w, e, path, args, env, max_retries) ==
    LET w0 == [w EXCEPT !.log = Append(@, Ev("install_local_mcp_server", path))]
    IN  IF ~ path_exists(e, path) THEN [w |-> w0, exc |-> FALSE, val |-> "False"]
        ELSE
        LET c == is_mcp_compliant(w0, e, basename(path), path, DEFAULT_MAX_RETRIES)
        IN  IF c.val # "True" THEN [w |-> c.w, exc |-> FALSE, val |-> "False"]
            ELSE
            LET l == load_config(c.w)
            IN  IF l.exc THEN [w |-> l.w, exc |-> FALSE, val |-> "False"]
                ELSE
                LET pj == check_package_json(l.w, e, path)
                IN  IF pj.exc THEN [w |-> pj.w, exc |-> FALSE, val |-> "False"]
                    ELSE
                    LET name == local_server_name(pj.val, path)
                        config == [mcpServers |->
                                     DictSet(l.val.mcpServers, name,
                                             server_config("node", local_args(path, args), env))]
                        sv == save_config(pj.w, config)
                    IN  IF sv.exc THEN [w |-> sv.w, exc |-> FALSE, val |-> "False"]
                        ELSE
                        LET g == generate_smithery_yaml(sv.w, e, name, "node",
                                                        local_args(path, args), env)
                        IN  IF g.exc THEN [w |-> g.w, exc |-> FALSE, val |-> "False"]
                            ELSE [w |-> g.w, exc |-> FALSE, val |-> "True"]

\* a probe test that asks for node only
probes_ok_node_only(env_status) == env_status.node

\* not (not env_status["node"] or not env_status["npm"])
probes_ok(env_status) == env_status.node /\ env_status.npm

\* "npx" if env_status["npm"] else "uvx"
launcher(env_status) == IF env_status.npm THEN "npx" ELSE "uvx"

\* ["-y", name] + (args if args else [])
npx_args(name, args) == <<<<"-y">>, name>> \o args

\* one pass of "for attempt in range(max_retries)" and the passes after it
RECURSIVE install_loop(_, _, _, _, _, _, _)
install_loop(w, e, name, args, env, max_retries, attempt) ==
    IF attempt >= max_retries
    THEN [w |-> w, exc |-> FALSE, val |-> "None"]
    ELSE
    LET p == check_environment(w, e)
        Failed(wx) ==
            LET nxt == retry_or_give_up(
                           [wx EXCEPT !.log = Append(@, Ev("install_failed", name))],
                           attempt, max_retries)
            IN  IF nxt.again
                THEN install_loop(nxt.w, e, name, args, env, max_retries, attempt + 1)
                ELSE [w |-> nxt.w, exc |-> FALSE, val |-> "False"]
    IN  IF ~ probes_ok(p.val) THEN [w |-> p.w, exc |-> FALSE, val |-> "False"]
        ELSE
        LET c == is_mcp_compliant(p.w, e, name, NoPath, DEFAULT_MAX_RETRIES)
        IN  IF c.val # "True" THEN [w |-> c.w, exc |-> FALSE, val |-> "False"]
            ELSE
            LET l == load_config(c.w)
            IN  IF l.exc THEN Failed(l.w)
                ELSE
                LET config == [mcpServers |->
                                 DictSet(l.val.mcpServers, name,
                                         server_config(launcher(p.val), npx_args(name, args), env))]
                    sv == save_config(l.w, config)
                IN  IF sv.exc THEN Failed(sv.w)
                    ELSE
                    LET g == generate_smithery_yaml(sv.w, e, name, launcher(p.val),
                                                    npx_args(name, args), env)
                    IN  IF g.exc THEN Failed(g.w)
                        ELSE [w |-> g.w, exc |-> FALSE, val |-> "True"]

install_mcp_server(w, e, name, args, env, max_retries) ==
    install_loop([w EXCEPT !.log = Append(@, Ev("install_mcp_server", name))],
                 e, name, args, env, max_retries, 0)

(***************************************************************************)
(* Spec: the two installers called one after the other on one registry     *)
(***************************************************************************)

PackageNames == { <<"example-pkg">> }

ArgLists == { <<>>, << <<"--verbose">> >> }

EnvMaps == { EmptyDict, (<<"X">> :> <<"1">>) }

CompliantManifest == Manifest(JAbsent, JDict({SDK}), JAbsent)

NamedManifest == Manifest(JStr(<<"example-pkg">>), JDict({SDK}), JAbsent)

PlainManifest == Manifest(JStr(<<"example-pkg">>), JDict({<<"express">>}), JAbsent)

BaseEnv ==
    [node |-> "ok", npm |-> "ok", uvx |-> "missing", registry |-> CompliantManifest,
     viewFails |-> 0, pathExists |-> TRUE, local |-> NoLocal, emitFails |-> FALSE]

\* what the call never consults is left as in BaseEnv
InstallEnvs ==
    { e \in [node : {"ok", "missing"}, npm : {"ok", "missing"}, uvx : {"missing"},
             registry : {CompliantManifest, PlainManifest},
             viewFails : {0, 1, DEFAULT_MAX_RETRIES}, pathExists : {TRUE},
             local : {NoLocal}, emitFails : BOOLEAN] :
        /\ (e.node # "ok" \/ e.npm # "ok" \/ e.viewFails >= DEFAULT_MAX_RETRIES)
              => (e.registry = CompliantManifest /\ ~ e.emitFails)
        /\ (e.node # "ok" \/ e.npm # "ok") => e.viewFails = 0
        /\ e.registry = PlainManifest => ~ e.emitFails }

LocalEnvs ==
    { e \in [node : {"ok"}, npm : {"ok"}, uvx : {"missing"},
             registry : {CompliantManifest}, viewFails : {0}, pathExists : BOOLEAN,
             local : { [state |-> st, info |-> EmptyManifest] :
                          st \in {"missing", "invalid", "unreadable"} }
                     \cup { [state |-> "ok", info |-> mf] :
                          mf \in {CompliantManifest, NamedManifest, PlainManifest} },
             emitFails : BOOLEAN] :
        /\ ~ e.pathExists => (e.local = NoLocal /\ ~ e.emitFails)
        /\ (e.local.state # "ok" \/ e.local.info = PlainManifest) => ~ e.emitFails }

LocalPaths == { <<"opt", "/", "srv">> }

Init ==
    /\ fs \in {NoFile("nodir"), NoFile("absent"), NoFile("malformed"), OkFile(EmptyConfig)}
    /\ yaml = NoYaml
    /\ prevFs = fs
    /\ call = NoCall
    /\ ret = NoRet
    /\ log = <<>>

InstallMcpServer ==
    \E name \in PackageNames, args \in ArgLists, env \in EnvMaps, e \in InstallEnvs :
        \E r \in {install_mcp_server(World(fs, yaml), e, name, args, env,
                                      DEFAULT_MAX_RETRIES)} :
            /\ call' = [op |-> "install_mcp_server", name |-> name, args |-> args,
                        env |-> env, e |-> e]
            /\ fs' = r.w.fs
            /\ yaml' = r.w.yaml
            /\ prevFs' = fs
            /\ ret' = [exc |-> r.exc, val |-> r.val]
            /\ log' = r.w.log

InstallLocalMcpServer ==
    \E path \in LocalPaths, args \in ArgLists, env \in EnvMaps, e \in LocalEnvs :
        \E r \in {install_local_mcp_server(World(fs, yaml), e, path, args, env,
                                            DEFAULT_MAX_RETRIES)} :
            /\ call' = [op |-> "install_local_mcp_server", path |-> path, args |-> args,
                        env |-> env, e |-> e]
            /\ fs' = r.w.fs
            /\ yaml' = r.w.yaml
            /\ prevFs' = fs
            /\ ret' = [exc |-> r.exc, val |-> r.val]
            /\ log' = r.w.log

Next == InstallMcpServer \/ InstallLocalMcpServer

Spec == Init /\ [][Next]_vars

\* the compliance check of the call obtains the registry manifest within its
\* attempts, and the manifest is compliant
CompliantObtained ==
    /\ call.e.viewFails < DEFAULT_MAX_RETRIES
    /\ WellTyped(call.e.registry)
    /\ AnyMarker(call.e.registry)

ProbesTrue == call.e.node = "ok" /\ call.e.npm = "ok"

Servers == fs.doc.mcpServers

ExpectedNpxArgs == << <<"-y">>, call.name >> \o call.args

\* C1 (as claimed): with both probes true and a compliant manifest the
\* registry-package install returns True, the registry maps N to exactly
\* {command: "npx", args: ["-y", N] + A, type: "stdio", env: E}, and
\* smithery.yaml is written with the same command and args.
C1_Original_InstallEntry ==
    (call.op = "install_mcp_server" /\ ProbesTrue /\ CompliantObtained)
        => /\ ret.val = "True"
           /\ fs.kind = "ok"
           /\ call.name \in DOMAIN Servers
           /\ Servers[call.name] =
                 [command |-> "npx", args |-> ExpectedNpxArgs, type |-> "stdio",
                  env |-> call.env]
           /\ yaml.kind = "written"
           /\ yaml.command = "npx"
           /\ yaml.args = ExpectedNpxArgs

\* C1 (amended): with both probes true, a compliant manifest and a config
\* file that is absent or a well-formed, writable registry, it returns True
\* and the registry maps N to exactly {command: "npx", args: ["-y", N] + A,
\* type: "stdio"}, with env: E added when E is not empty and no env key
\* otherwise; smithery.yaml is written with the same command and args
\* unless writing it fails.
C1_InstallEntry ==
    (call.op = "install_mcp_server" /\ ProbesTrue /\ CompliantObtained
        /\ prevFs.kind # "malformed")
        => /\ ret.val = "True"
           /\ fs.kind = "ok"
           /\ call.name \in DOMAIN Servers
           /\ Servers[call.name] =
                 IF call.env = <<>>
                 THEN [command |-> "npx", args |-> ExpectedNpxArgs, type |-> "stdio"]
                 ELSE [command |-> "npx", args |-> ExpectedNpxArgs, type |-> "stdio",
                       env |-> call.env]
           /\ ~ call.e.emitFails
                 => /\ yaml.kind = "written"
                    /\ yaml.command = "npx"
                    /\ yaml.args = ExpectedNpxArgs

C1_Witness ==
    /\ call.op = "install_mcp_server"
    /\ call.name = <<"example-pkg">>
    /\ call.args = << <<"--verbose">> >>
    /\ call.env = (<<"X">> :> <<"1">>)
    /\ ret.val = "True"
    /\ fs.kind = "ok"
    /\ Servers[<<"example-pkg">>] =
          [command |-> "npx", args |-> << <<"-y">>, <<"example-pkg">>, <<"--verbose">> >>,
           type |-> "stdio", env |-> (<<"X">> :> <<"1">>)]
    /\ yaml.kind = "written"
    /\ yaml.args = << <<"-y">>, <<"example-pkg">>, <<"--verbose">> >>

\* the base name of path p: its last component
BaseNameOf(p) ==
    CHOOSE b \in {SubSeq(p, k + 1, Len(p)) : k \in 0..Len(p)} :
        /\ ~ Contains(b, "/")
        /\ (b = p \/ p[Len(p) - Len(b)] = "/")

DeclaresName == call.e.local.state = "ok" /\ call.e.local.info.name.t = "str"

ExpectedLocalKey ==
    IF DeclaresName THEN call.e.local.info.name.s ELSE BaseNameOf(call.path)

\* C2: a successful local-path install of P with extra arguments A persists
\* an entry with command "node", args [P/index.js] + A and type "stdio",
\* under the manifest's declared name when it has one and under the base
\* name of P otherwise.
C2_LocalEntry ==
    (call.op = "install_local_mcp_server" /\ ret.val = "True")
        => /\ fs.kind = "ok"
           /\ ExpectedLocalKey \in DOMAIN Servers
           /\ Servers[ExpectedLocalKey].command = "node"
           /\ Servers[ExpectedLocalKey].args =
                 << call.path \o <<"/", "index.js">> >> \o call.args
           /\ Servers[ExpectedLocalKey].type = "stdio"

C2_Witness ==
    /\ call.op = "install_local_mcp_server"
    /\ ret.val = "True"
    /\ DeclaresName
    /\ call.args = << <<"--verbose">> >>
    /\ <<"example-pkg">> \in DOMAIN Servers
    /\ Servers[<<"example-pkg">>].args =
          << <<"opt", "/", "srv", "/", "index.js">>, <<"--verbose">> >>

LogHas(ops) == \E i \in 1..Len(log) : log[i].op \in ops

\* C3: local-path install of a path that does not exist returns False and
\* leaves the registry file as it was: no compliance check, no registry
\* load or save and no manifest emission happens in the call.
C3_MissingPathFailsUntouched ==
    (call.op = "install_local_mcp_server" /\ ~ call.e.pathExists)
        => /\ ret.exc = FALSE
           /\ ret.val = "False"
           /\ fs = prevFs
           /\ yaml.kind # "written"
           /\ ~ LogHas({"attempt", "check_package_json", "npm_view", "load_config",
                        "save_config", "generate_smithery_yaml"})

C3_Witness ==
    /\ call.op = "install_local_mcp_server"
    /\ ~ call.e.pathExists
    /\ ret.val = "False"
    /\ fs.kind = "ok"
    /\ Servers # <<>>

\* C4: registry-package install fails at once when the node probe or the
\* npm probe is false: it returns False after exactly one environment
\* probe, with no retry, no compliance check and the registry unchanged.
C4_ProbeFailureIsHard ==
    (call.op = "install_mcp_server" /\ ~ ProbesTrue)
        => /\ ret.exc = FALSE
           /\ ret.val = "False"
           /\ Count("check_environment") = 1
           /\ ~ LogHas({"sleep", "install_failed", "attempt", "npm_view", "load_config",
                        "save_config", "generate_smithery_yaml"})
           /\ fs = prevFs

C4_Witness ==
    /\ call.op = "install_mcp_server"
    /\ call.e.node = "ok"
    /\ call.e.npm = "missing"
    /\ ret.val = "False"
    /\ Count("check_environment") = 1
    /\ fs.kind = "ok"

(***************************************************************************)
(* MetadataFetcher, the supabase installer and main                        *)
(*   e.git       "ok" | "fail" | "missing": git clone                      *)
(*   e.curl      "json" | "garbage" | "fail": curl of the raw package.json *)
(*   e.remote    the package.json curl fetches, e.detected the env         *)
(*               variables the scan of its text finds                      *)
(*   e.supabaseFound   "npm view supabase-mcp-server version" succeeds     *)
(***************************************************************************)

GITHUB == "github.com"

Metadata(name, env) == [name |-> name, args |-> <<>>, env |-> env]

\* package_info.get("name", default)
name_or(package_info, default) ==
    IF package_info.t = "dict" /\ package_info.name.t = "str"
    THEN package_info.name.s ELSE default

\* lines 349-453: the name, args and env found for url
fetch_metadata(w, e, url) ==
    LET fallback == Metadata(basename(url), EmptyDict)
    IN  IF Contains(url, GITHUB)
        THEN CASE e.curl = "fail"    -> [w |-> w, val |-> Metadata(<<>>, EmptyDict)]
               [] e.curl = "garbage" -> [w |-> w, val |-> fallback]
               [] OTHER ->
                    IF e.remote.t # "dict"
                    THEN \* .get on a list raises: line 451
                         [w |-> w, val |-> Metadata(<<>>, EmptyDict)]
                    ELSE [w |-> w,
                          val |-> Metadata(name_or(e.remote, basename(url)), e.detected)]
        ELSE IF ~ StartsWith(url, <<"http">>)
        THEN LET v == IF e.npm = "ok" THEN npm_view(w, e, url)
                      ELSE [w |-> w, exc |-> TRUE, val |-> EmptyManifest]
             IN  IF v.exc \/ v.val.t # "dict"
                 THEN [w |-> v.w, val |-> fallback]
                 ELSE [w |-> v.w, val |-> Metadata(name_or(v.val, url), e.detected)]
        ELSE [w |-> w, val |-> fallback]

\* the log holds the url asked for and the name found
fetch_package_metadata(w, e, url) ==
    LET r == fetch_metadata([w EXCEPT !.log = Append(@, Ev("fetch_package_metadata", url))],
                            e, url)
    IN  [w |-> [r.w EXCEPT !.log = Append(@, Ev("metadata_name", r.val.name))],
         val |-> r.val]

SUPABASE_PACKAGE == <<"supabase-mcp-server">>

TEMP_DIR == <<"temp-supabase-mcp">>

\* the env dict of lines 500-505 and 518-528
supabase_env(url, api_key, ref, api_url) ==
    LET base == (<<"SUPABASE_URL">> :> url) @@ (<<"SUPABASE_API_KEY">> :> api_key)
        withRef == IF ref # <<>> THEN base @@ (<<"SUPABASE_PROJECT_REF">> :> ref) ELSE base
    IN  IF api_url # <<>> THEN withRef @@ (<<"SUPABASE_MANAGEMENT_API">> :> api_url)
        ELSE withRef

\* subprocess.run(["git", "clone", url, dir], check=True); the directory exists after it
git_clone(w, e, url, dir) ==
    [w   |-> [w EXCEPT !.log = Append(@, Ev("git_clone", dir))],
     exc |-> e.git # "ok",
     e   |-> [e EXCEPT !.pathExists = (e.git = "ok")]]

install_supabase_mcp(w, e, url, api_key, ref, api_url) ==
    LET w0 == [w EXCEPT !.log = Append(@, Ev("install_supabase_mcp", url))]
        env_dict == supabase_env(url, api_key, ref, api_url)
    IN  IF e.npm = "missing"
        THEN \* FileNotFoundError is not a CalledProcessError: it leaves the function
             [w |-> w0, exc |-> TRUE, val |-> "raise"]
        ELSE IF e.npm = "broken" \/ ~ e.supabaseFound
        THEN LET g == git_clone(w0, e, <<"github.com", "/", "Deploya-labs", "/", "mcp-supabase">>,
                                TEMP_DIR)
             IN  IF g.exc THEN [w |-> g.w, exc |-> FALSE, val |-> "False"]
                 ELSE IF e.npm # "ok"
                 THEN \* npm install fails
                      [w |-> g.w, exc |-> FALSE, val |-> "False"]
                 ELSE install_local_mcp_server(g.w, g.e, TEMP_DIR, <<>>, env_dict,
                                               DEFAULT_MAX_RETRIES)
        ELSE LET r == install_mcp_server(w0, e, SUPABASE_PACKAGE, <<>>, env_dict,
                                         DEFAULT_MAX_RETRIES)
             IN  [w |-> r.w, exc |-> FALSE, val |-> IF r.val = "True" THEN "True" ELSE "False"]

\* a package name that ignores the fetched metadata
url_package_name_url_only(metadata, url) == url

\* metadata["name"] or args.url
url_package_name(metadata, url) == IF metadata.name # <<>> THEN metadata.name ELSE url

\* env_to_use = metadata["env"].copy(); env_to_use.update(env_dict)
merge_env(detected, env_dict) ==
    [k \in (DOMAIN detected) \cup (DOMAIN env_dict) |->
        IF k \in DOMAIN env_dict THEN env_dict[k] ELSE detected[k]]

\* lines 604-626
url_command(w, e, url, args, env_dict, auto_detect) ==
    IF auto_detect
    THEN LET md == fetch_package_metadata(w, e, url)
             args_to_use == IF args # <<>> THEN args ELSE md.val.args
             env_to_use == merge_env(md.val.env, env_dict)
         IN  IF Contains(url, GITHUB)
             THEN LET g == git_clone(md.w, e, url, basename(url))
                  IN  IF g.exc
                      THEN \* check=True raises in main, outside any try
                           [w |-> g.w, exc |-> TRUE, val |-> "raise"]
                      ELSE install_local_mcp_server(g.w, g.e, basename(url), args_to_use,
                                                    env_to_use, DEFAULT_MAX_RETRIES)
             ELSE install_mcp_server(md.w, e, url_package_name(md.val, url), args_to_use,
                                     env_to_use, DEFAULT_MAX_RETRIES)
    ELSE \* manual mode: an npm package whatever the host
         install_mcp_server(w, e, url, args, env_dict, DEFAULT_MAX_RETRIES)

\* sys.exit(0 if success else 1) on the value r.val the command gave; an
\* exception that leaves main ends the process with 1
exit_code(r) == IF ~ r.exc /\ r.val = "True" THEN 0 ELSE 1

main(w, e, argv) ==
    LET parsed == env_dict_of(argv.env)
        env_dict == parsed.env_dict
        w0 == [w EXCEPT !.log = [i \in 1..Len(parsed.warnings) |->
                                    Ev("warning", parsed.warnings[i])]]
    IN  CASE argv.command = "install" ->
                install_mcp_server(w0, e, argv.name, argv.args, env_dict,
                                   DEFAULT_MAX_RETRIES)
          [] argv.command = "local" ->
                install_local_mcp_server(w0, e, argv.name, argv.args, env_dict,
                                         DEFAULT_MAX_RETRIES)
          [] argv.command = "url" ->
                url_command(w0, e, argv.name, argv.args, env_dict, argv.auto_detect)
          [] argv.command = "supabase" ->
                install_supabase_mcp(w0, e, argv.name, argv.key, argv.ref, argv.api_url)
          [] argv.command = "smithery" ->
                generate_smithery_yaml(w0, e, argv.name, "npx", argv.args, env_dict)
          [] OTHER -> [w |-> w0, exc |-> FALSE, val |-> "help"]

(***************************************************************************)
(* SpecCli: one run of the command line on every argv, environment and     *)
(* registry file of the bounded sets                                       *)
(***************************************************************************)

GithubUrl == <<"http", "s", "://", "github.com", "/", "o", "/", "repo">>

Urls ==
    { GithubUrl, <<"example-pkg">>, <<"@scope", "/", "pkg">>,
      <<"http", "s", "://", "example.com", "/", "pkg">>,
      <<"http", "s", "://", "example.com", "/">> }

EnvTokenChoices == { <<>>, << <<"X", "=", "1">> >> }

Argv(command, name, args, env, auto_detect) ==
    [command |-> command, name |-> name, args |-> args, env |-> env,
     auto_detect |-> auto_detect, key |-> <<"k">>, ref |-> <<>>, api_url |-> <<>>]

CliBase ==
    [node |-> "ok", npm |-> "ok", uvx |-> "missing", registry |-> CompliantManifest,
     viewFails |-> 0, pathExists |-> TRUE, local |-> NoLocal, emitFails |-> FALSE,
     git |-> "ok", curl |-> "json", remote |-> CompliantManifest,
     detected |-> EmptyDict, supabaseFound |-> TRUE]

CliExtend(e) ==
    [node |-> e.node, npm |-> e.npm, uvx |-> e.uvx, registry |-> e.registry,
     viewFails |-> e.viewFails, pathExists |-> e.pathExists, local |-> e.local,
     emitFails |-> e.emitFails, git |-> "ok", curl |-> "json",
     remote |-> CompliantManifest, detected |-> EmptyDict, supabaseFound |-> TRUE]

DetectedChoices == { EmptyDict, (<<"X">> :> <<"<YOUR_VALUE>">>) }

ClonedFiles ==
    { NoLocal, [state |-> "ok", info |-> CompliantManifest],
      [state |-> "ok", info |-> NamedManifest] }

\* the url command; what a run never consults is left as in CliBase
UrlRegistryEnvs ==
    { [CliBase EXCEPT !.npm = n, !.viewFails = v, !.registry = rg] :
        n \in {"ok", "missing"}, v \in {0, 1}, rg \in {CompliantManifest, NamedManifest} }

UrlCloneEnvs ==
    { [CliBase EXCEPT !.git = g, !.curl = "json", !.remote = rm, !.detected = d,
                      !.local = l] :
        g \in {"ok", "fail"}, rm \in {CompliantManifest, NamedManifest},
        d \in DetectedChoices, l \in ClonedFiles }
    \cup
    { [CliBase EXCEPT !.git = g, !.curl = c, !.local = l] :
        g \in {"ok", "fail"}, c \in {"garbage", "fail"}, l \in ClonedFiles }

UrlRunsConsulted ==
    { [argv |-> Argv("url", u, <<>>, t, FALSE), e |-> e] :
        u \in Urls, t \in EnvTokenChoices, e \in UrlRegistryEnvs }
    \cup
    { [argv |-> Argv("url", GithubUrl, <<>>, t, TRUE), e |-> e] :
        t \in EnvTokenChoices, e \in UrlCloneEnvs }
    \cup
    { [argv |-> Argv("url", u, <<>>, t, TRUE),
       e |-> [e EXCEPT !.detected = IF StartsWith(u, <<"http">>) THEN EmptyDict ELSE d]] :
        u \in Urls \ {GithubUrl}, t \in EnvTokenChoices, e \in UrlRegistryEnvs,
        d \in DetectedChoices }

SupabaseRuns ==
    { [argv |-> [Argv("supabase", <<"http", "s", "://", "x.supabase.co">>, <<>>, <<>>, FALSE)
                    EXCEPT !.ref = rf],
       e |-> [CliBase EXCEPT !.npm = n, !.supabaseFound = f, !.git = g, !.local = l,
                             !.node = nd]] :
        rf \in {<<>>, <<"ref">>}, n \in {"ok", "missing", "broken"}, f \in BOOLEAN,
        g \in {"ok", "fail", "missing"}, l \in ClonedFiles, nd \in {"ok", "missing"} }

InstallRuns ==
    { [argv |-> Argv("install", n, a, t, FALSE), e |-> CliExtend(e)] :
        n \in PackageNames, a \in ArgLists, t \in EnvTokenChoices, e \in InstallEnvs }

LocalRuns ==
    { [argv |-> Argv("local", pth, a, t, FALSE), e |-> CliExtend(e)] :
        pth \in LocalPaths, a \in ArgLists, t \in EnvTokenChoices, e \in LocalEnvs }

SmitheryRuns ==
    { [argv |-> Argv("smithery", <<"example-pkg">>, a, t, FALSE),
       e |-> [CliBase EXCEPT !.emitFails = f]] :
        a \in ArgLists, t \in EnvTokenChoices, f \in BOOLEAN }

CliRuns == UrlRunsConsulted \cup SupabaseRuns \cup InstallRuns \cup LocalRuns \cup SmitheryRuns

OtherEntry == [command |-> "node", args |-> << <<"index.js">> >>, type |-> "stdio"]

CliFiles ==
    { NoFile("nodir"), NoFile("absent"), NoFile("malformed"), OkFile(EmptyConfig),
      OkFile([mcpServers |-> (<<"other">> :> OtherEntry)]) }

InitCli ==
    /\ fs \in CliFiles
    /\ yaml = NoYaml
    /\ prevFs = fs
    /\ \E r \in CliRuns : call = [op |-> "main", argv |-> r.argv, e |-> r.e]
    /\ ret = NoRet
    /\ log = <<>>

\* main on the argv and environment of the run, then sys.exit
RunMain(command) ==
    /\ ret.val = "unset"
    /\ call.argv.command = command
    /\ \E r \in {main(World(fs, yaml), call.e, call.argv)} :
           /\ fs' = r.w.fs
           /\ yaml' = r.w.yaml
           /\ ret' = [exc |-> r.exc, val |-> r.val, exit |-> exit_code(r)]
           /\ log' = r.w.log
    /\ UNCHANGED <<prevFs, call>>

RunInstall == RunMain("install")

RunLocal == RunMain("local")

RunUrl == RunMain("url")

RunSupabase == RunMain("supabase")

RunSmithery == RunMain("smithery")

NextCli == RunInstall \/ RunLocal \/ RunUrl \/ RunSupabase \/ RunSmithery

SpecCli == InitCli /\ [][NextCli]_vars

IsInstallerRun == call.op = "main" /\ call.argv.command \in {"install", "local", "url", "supabase"}

\* C7 (as claimed): every installer entry point turns every internal
\* failure, a missing or failing external tool and a malformed config file
\* included, into the boolean False without raising, and the exit code of
\* the process is 0 exactly when that boolean is True.
C7_FailuresBecomeFalse ==
    (Returned /\ IsInstallerRun)
        => /\ ret.exc = FALSE
           /\ ret.val \in {"True", "False"}
           /\ (ret.exit = 0) <=> (ret.val = "True")

LogHasEv(op, arg) == \E i \in 1..Len(log) : log[i] = [op |-> op, arg |-> arg]

IsUrlRun == call.op = "main" /\ call.argv.command = "url"

Url == call.argv.name

\* the clone is made and, once it has succeeded, the local-path install runs
ClonesThenLocal ==
    /\ Count("git_clone") = 1
    /\ call.e.git = "ok" => LogHasEv("install_local_mcp_server", BaseNameOf(Url))
    /\ Count("install_mcp_server") = 0

RegistryInstallOf(name) ==
    /\ LogHasEv("install_mcp_server", name)
    /\ Count("install_mcp_server") = 1
    /\ Count("git_clone") = 0
    /\ Count("install_local_mcp_server") = 0

\* C8 (as claimed): with or without --auto-detect, a URL that contains the
\* GitHub host is cloned and handed to the local-path install, any other
\* URL is handed to the registry-package install with the URL string
\* itself as the package name.
C8_Original_UrlDispatch ==
    (Returned /\ IsUrlRun)
        => IF Contains(Url, "github.com") THEN ClonesThenLocal
           ELSE RegistryInstallOf(Url)

\* the name the metadata fetcher reported in this run
FetchedName ==
    LET i == CHOOSE j \in 1..Len(log) : log[j].op = "metadata_name"
    IN  log[i].arg

\* C8 (amended): with --auto-detect, a URL that contains the GitHub host is
\* cloned into the directory named by its base name and, once the clone has
\* succeeded, handed to the local-path install, and any other URL is handed
\* to the registry-package install under the name the metadata fetcher
\* reports, or under the URL string when that name is empty; without
\* --auto-detect every URL, GitHub or not, is handed to the
\* registry-package install with the URL string itself as the package name.
C8_UrlDispatch ==
    (Returned /\ IsUrlRun)
        => IF call.argv.auto_detect
           THEN /\ Count("metadata_name") = 1
                /\ IF Contains(Url, "github.com") THEN ClonesThenLocal
                   ELSE RegistryInstallOf(IF FetchedName # <<>> THEN FetchedName ELSE Url)
           ELSE /\ Count("fetch_package_metadata") = 0
                /\ RegistryInstallOf(Url)

C8_Witness ==
    /\ Returned
    /\ IsUrlRun
    /\ ~ call.argv.auto_detect
    /\ Url = GithubUrl
    /\ LogHasEv("install_mcp_server", GithubUrl)
    /\ ret.val = "True"
    /\ GithubUrl \in DOMAIN Servers

(***************************************************************************)
(* What one call of an installer repeats                                   *)
(***************************************************************************)

IsInstall == call.op = "install_mcp_server"

IsLocal == call.op = "install_local_mcp_server"

\* the passes of the loop of lines 290-336 that ended in its except branch
RaisedPasses == Count("install_failed")

\* C11 (as claimed): within one call of an installer the environment probe,
\* the registry load and the registry save each run at most once, whatever
\* step fails, a registry load that raises on a malformed config file
\* included.
C11_Original_NoWholeRetry ==
    (IsInstall \/ IsLocal)
        => /\ Count("check_environment") <= 1
           /\ Count("load_config") <= 1
           /\ Count("save_config") <= 1

\* C11 (amended): local-path install never probes and runs the registry
\* load and the registry save at most once per call, whatever step fails.
\* Registry-package install runs the probe, the load and the save at most
\* once per call as long as no step raises; a step that raises sends the
\* whole body round again, up to max_retries passes: on a malformed config
\* file the probe and the load each run exactly max_retries times, nothing
\* is saved and the call returns False.
C11_WholeRetryOnlyOnRaise ==
    /\ IsLocal
         => /\ Count("check_environment") = 0
            /\ Count("load_config") <= 1
            /\ Count("save_config") <= 1
    /\ IsInstall
         => /\ Count("check_environment") <= DEFAULT_MAX_RETRIES
            /\ Count("load_config") <= Count("check_environment")
            /\ Count("save_config") <= Count("load_config")
            /\ RaisedPasses <= Count("check_environment")
            /\ Count("check_environment") <= RaisedPasses + 1
            /\ RaisedPasses = 0
                 => /\ Count("check_environment") = 1
                    /\ Count("load_config") <= 1
                    /\ Count("save_config") <= 1
            /\ (ProbesTrue /\ CompliantObtained /\ prevFs.kind = "malformed")
                 => /\ Count("check_environment") = DEFAULT_MAX_RETRIES
                    /\ Count("load_config") = DEFAULT_MAX_RETRIES
                    /\ Count("save_config") = 0
                    /\ RaisedPasses = DEFAULT_MAX_RETRIES
                    /\ ret.val = "False"
                    /\ fs = prevFs

C11_Witness ==
    /\ IsInstall
    /\ prevFs.kind = "malformed"
    /\ call.e.viewFails = 1
    /\ Count("check_environment") = DEFAULT_MAX_RETRIES
    /\ Count("load_config") = DEFAULT_MAX_RETRIES
    /\ Count("attempt") = DEFAULT_MAX_RETRIES + 1
    /\ ret.val = "False"

(***************************************************************************)
(* SpecRace: two installer processes on one config file                    *)
(*   call[p]  the call of process p: its arguments, its position pc in the *)
(*            installer, the pass of the retry loop it is in, the registry *)
(*            it loaded and the registry it is about to write              *)
(*   ret[p]   what process p returned                                      *)
(*   log      the loads and writes of the file, in the order they happened *)
(* Probes, "npm view" and package.json are private to a process; the file  *)
(* is read in load_config and written in save_config, whose open(.., 'w')  *)
(* empties the file before json.dump fills it.                             *)
(***************************************************************************)

Procs == {1, 2}

RaceName(p) == IF p = 1 THEN <<"srv-a">> ELSE <<"srv-b">>

RacePath(p) == <<"opt", "/">> \o RaceName(p)

RaceEnv(op) ==
    IF op = "install_mcp_server" THEN BaseEnv
    ELSE [BaseEnv EXCEPT !.local = [state |-> "ok", info |-> CompliantManifest]]

RaceFiles ==
    { NoFile("nodir"), OkFile(EmptyConfig),
      OkFile([mcpServers |-> (<<"other">> :> OtherEntry)]) }

RaceCall(p, op) ==
    [op |-> op, name |-> RaceName(p), path |-> RacePath(p), args |-> <<>>,
     env |-> EmptyDict, e |-> RaceEnv(op), pc |-> "start", attempt |-> 0,
     loaded |-> EmptyConfig, config |-> EmptyConfig, clobbered |-> FALSE]

InitRace ==
    /\ fs \in RaceFiles
    /\ yaml = NoYaml
    /\ prevFs = fs
    /\ call \in { [p \in Procs |-> RaceCall(p, ops[p])] :
                    ops \in [Procs -> {"install_mcp_server", "install_local_mcp_server"}] }
    /\ ret = [p \in Procs |-> "unset"]
    /\ log = <<>>

\* the world process p sees now
Now == [fs |-> fs, yaml |-> yaml, log |-> <<>>, views |-> 0]

Return(p, val) ==
    /\ call' = [call EXCEPT ![p].pc = "done"]
    /\ ret' = [ret EXCEPT ![p] = val]

\* a step of process p raised: lines 329-336 (next pass or give up) in the
\* registry-package install, lines 271-273 in the local-path install
Raised(p) ==
    IF call[p].op = "install_mcp_server"
    THEN \E nxt \in {retry_or_give_up(Now, call[p].attempt, DEFAULT_MAX_RETRIES)} :
             IF nxt.again
             THEN /\ call' = [call EXCEPT ![p].pc = "start", ![p].attempt = @ + 1]
                  /\ ret' = ret
             ELSE Return(p, "False")
    ELSE Return(p, "False")

\* lines 295-303, lines 235-242: what comes before the registry is loaded
Verify(p) ==
    /\ call[p].pc = "start"
    /\ LET c == call[p]
           passed ==
               IF c.op = "install_mcp_server"
               THEN /\ probes_ok(check_environment(Now, c.e).val)
                    /\ is_mcp_compliant(Now, c.e, c.name, NoPath,
                                        DEFAULT_MAX_RETRIES).val = "True"
               ELSE /\ path_exists(c.e, c.path)
                    /\ is_mcp_compliant(Now, c.e, basename(c.path), c.path,
                                        DEFAULT_MAX_RETRIES).val = "True"
       IN  IF passed
           THEN call' = [call EXCEPT ![p].pc = "load"] /\ ret' = ret
           ELSE Return(p, "False")
    /\ UNCHANGED <<fs, yaml, prevFs, log>>

\* the registry process p writes: lines 306-319, lines 245-262
NewConfig(c, loaded) ==
    IF c.op = "install_mcp_server"
    THEN [mcpServers |->
            DictSet(loaded.mcpServers, c.name,
                    server_config(launcher(check_environment(Now, c.e).val),
                                  npx_args(c.name, c.args), c.env))]
    ELSE [mcpServers |->
            DictSet(loaded.mcpServers,
                    local_server_name(check_package_json(Now, c.e, c.path).val, c.path),
                    server_config("node", local_args(c.path, c.args), c.env))]

\* config = load_config() and the in-memory update
LoadConfig(p) ==
    /\ call[p].pc = "load"
    /\ \E r \in {load_config(Now)} :
           /\ fs' = r.w.fs
           /\ log' = Append(log, Ev("load_config", p))
           /\ IF r.exc
              THEN Raised(p)
              ELSE /\ call' = [call EXCEPT ![p].pc = "open", ![p].loaded = r.val,
                                           ![p].config = NewConfig(call[p], r.val)]
                   /\ ret' = ret
    /\ UNCHANGED <<yaml, prevFs>>

\* save_config, line 42: open(config_path, 'w') leaves an empty file
OpenConfig(p) ==
    /\ call[p].pc = "open"
    /\ IF fs.kind = "nodir"
       THEN Raised(p) /\ fs' = fs
       ELSE /\ fs' = NoFile("malformed")
            /\ call' = [call EXCEPT ![p].pc = "dump", ![p].clobbered = FALSE]
            /\ ret' = ret
    /\ UNCHANGED <<yaml, prevFs, log>>

\* save_config, line 43: json.dump and close write the document at offset 0
\* of the file p opened; what another process wrote in between is not
\* truncated, and a longer document leaves its tail behind this one
DumpConfig(p) ==
    /\ call[p].pc = "dump"
    /\ \E r \in {save_config(Now, call[p].config)} :
           fs' \in IF call[p].clobbered THEN {r.w.fs, NoFile("malformed")}
                   ELSE {r.w.fs}
    /\ call' = [q \in Procs |->
                  IF q = p THEN [call[q] EXCEPT !.pc = "emit"]
                  ELSE IF call[q].pc = "dump" THEN [call[q] EXCEPT !.clobbered = TRUE]
                  ELSE call[q]]
    /\ log' = Append(log, Ev("save_config", p))
    /\ UNCHANGED <<yaml, prevFs, ret>>

\* lines 324-327, lines 266-269: the manifest, then return True
Emit(p) ==
    /\ call[p].pc = "emit"
    /\ LET c == call[p]
           name == IF c.op = "install_mcp_server" THEN c.name
                   ELSE local_server_name(check_package_json(Now, c.e, c.path).val, c.path)
           command == IF c.op = "install_mcp_server"
                      THEN launcher(check_environment(Now, c.e).val) ELSE "node"
           args == IF c.op = "install_mcp_server" THEN npx_args(c.name, c.args)
                   ELSE local_args(c.path, c.args)
       IN  \E g \in {generate_smithery_yaml(Now, c.e, name, command, args, c.env)} :
               yaml' = g.w.yaml
    /\ Return(p, "True")
    /\ UNCHANGED <<fs, prevFs, log>>

NextRace ==
    \E p \in Procs :
        \/ Verify(p)
        \/ LoadConfig(p)
        \/ OpenConfig(p)
        \/ DumpConfig(p)
        \/ Emit(p)

SpecRace == InitRace /\ [][NextRace]_vars

BothTrue == \A p \in Procs : ret[p] = "True"

\* the position in the log of the last op of process p (0: none)
LastAt(op, p) ==
    SetMax({0} \cup {i \in 1..Len(log) : log[i].op = op /\ log[i].arg = p})

\* the process whose write of the file came last
LastSaver == CHOOSE q \in Procs : \A p \in Procs : LastAt("save_config", p) <= LastAt("save_config", q)

OtherProc(p) == CHOOSE o \in Procs : o # p

\* C12: when both processes have returned True and the file is a registry,
\* it is the registry of the process that wrote last: what that process
\* loaded plus its own entry.  The entry of the process that wrote first is
\* in the file exactly when the last writer loaded after that write, and is
\* lost otherwise.
C12_LastWriterWins ==
    (BothTrue /\ fs.kind = "ok")
        => LET q == LastSaver
               o == OtherProc(q)
               loaded == call[q].loaded.mcpServers
           IN  /\ DOMAIN Servers = (DOMAIN loaded) \cup {RaceName(q)}
               /\ \A k \in (DOMAIN loaded) \ {RaceName(q)} : Servers[k] = loaded[k]
               /\ Servers[RaceName(q)].type = "stdio"
               /\ (RaceName(o) \in DOMAIN Servers)
                     <=> (LastAt("save_config", o) < LastAt("load_config", q))

\* both installs returned True and the entry of the first writer is gone
C12_Witness ==
    /\ BothTrue
    /\ fs.kind = "ok"
    /\ LastSaver = 2
    /\ LastAt("load_config", 2) < LastAt("save_config", 1)
    /\ RaceName(2) \in DOMAIN Servers
    /\ RaceName(1) \notin DOMAIN Servers
    /\ call[1].op = "install_mcp_server"
    /\ call[2].op = "install_mcp_server"

(***************************************************************************)
(* What a successful install leaves in the registry                        *)
(***************************************************************************)

\* the registry the call found in the file
OldServers == IF prevFs.kind = "ok" THEN prevFs.doc.mcpServers ELSE EmptyDict

\* the key the call installs under
InstalledKey == IF IsInstall THEN call.name ELSE ExpectedLocalKey

\* the entry built from the arguments of the call alone
FreshEntry ==
    LET command == IF IsInstall THEN "npx" ELSE "node"
        args == IF IsInstall THEN ExpectedNpxArgs
                ELSE << call.path \o <<"/", "index.js">> >> \o call.args
    IN  IF call.env = <<>>
        THEN [command |-> command, args |-> args, type |-> "stdio"]
        ELSE [command |-> command, args |-> args, type |-> "stdio", env |-> call.env]

\* C13: in a sequential run of installs, a successful install under name N
\* leaves every registry entry whose key is not N as it was in the file and
\* replaces an entry for N entirely: the new entry holds the command, args
\* and env of this call only, and has no env key when the supplied env map
\* is empty.
C13_OnlyNReplaced ==
    ((IsInstall \/ IsLocal) /\ ret.val = "True")
        => /\ fs.kind = "ok"
           /\ DOMAIN Servers = (DOMAIN OldServers) \cup {InstalledKey}
           /\ \A k \in (DOMAIN OldServers) \ {InstalledKey} : Servers[k] = OldServers[k]
           /\ Servers[InstalledKey] = FreshEntry
           /\ DOMAIN Servers[InstalledKey] =
                 IF call.env = <<>> THEN {"command", "args", "type"}
                 ELSE {"command", "args", "type", "env"}

\* an entry with args and env is replaced by one without, next to another
C13_Witness ==
    /\ IsInstall
    /\ ret.val = "True"
    /\ call.env = <<>>
    /\ call.args = <<>>
    /\ prevFs.kind = "ok"
    /\ call.name \in DOMAIN OldServers
    /\ "env" \in DOMAIN OldServers[call.name]
    /\ OldServers[call.name].args = << <<"-y">>, call.name, <<"--verbose">> >>
    /\ <<"srv">> \in DOMAIN OldServers
    /\ Servers[<<"srv">>] = OldServers[<<"srv">>]
    /\ Servers[call.name] =
          [command |-> "npx", args |-> << <<"-y">>, call.name >>, type |-> "stdio"]

(***************************************************************************)
(* Registry save and manifest emission                                     *)
(***************************************************************************)

\* the positions in the log of the operation op
At(op) == {i \in 1..Len(log) : log[i].op = op}

Emitted == At("generate_smithery_yaml") # {}

\* C14: in registry-package install and in local-path install the registry
\* is saved before the manifest is emitted, and a failed emission changes
\* neither the result nor the registry: the install still returns True and
\* the saved entry stays in the file.
C14_SaveBeforeEmit ==
    (IsInstall \/ IsLocal)
        => /\ \A i \in At("generate_smithery_yaml") :
                 /\ \E j \in At("save_config") : j < i
                 /\ \A j \in At("save_config") : j < i
           /\ (Emitted /\ call.e.emitFails)
                 => /\ ret.exc = FALSE
                    /\ ret.val = "True"
                    /\ Count("generate_smithery_yaml") = 1
                    /\ Count("save_config") = 1
                    /\ yaml.kind # "written"
                    /\ fs.kind = "ok"
                    /\ InstalledKey \in DOMAIN Servers
                    /\ Servers[InstalledKey] = FreshEntry

\* a local-path install whose manifest could not be written
C14_Witness ==
    /\ IsLocal
    /\ call.e.emitFails
    /\ Emitted
    /\ ret.val = "True"
    /\ yaml.kind = "none"
    /\ fs.kind = "ok"
    /\ prevFs.kind # "ok"
    /\ Servers = (<<"srv">> :> FreshEntry)

====
